---------------------------- MODULE Spec2Model ----------------------------
(***************************************************************************)
(* Model of the batch orchestration and parallel dispatch of delay.py:     *)
(* delay_from_files / _tropo_delay_with_values (shape validation),         *)
(* delay_from_grid (serial path, work-unit construction, result            *)
(* collection, reshape) and _parmap (work queue, worker threads, join).    *)
(*                                                                         *)
(* Abstractions.  The geodetic point (lat, lon, height) at flat index i is  *)
(* the value i, so all points of a batch are distinct.  The atmospheric    *)
(* model is the point at which its queries raise (0: it never raises).  A  *)
(* line-of-sight array holds at index i the look vector (or incidence      *)
(* scalar) number i.  The delay integrated for                             *)
(* one ray is the tuple <<component, point, look vector, correction>>, a   *)
(* deterministic injective function of what it is computed from.  Calls    *)
(* into modules outside delay.py (util.gdal_open, losreader.los_to_lv,     *)
(* losreader.infer_los) return: they yield arrays of the drawn shapes.     *)
(*                                                                         *)
(* Four specifications.  Spec follows a call of an entry point through     *)
(* validation, dispatch and collection.  SpecDispatch is a parallel        *)
(* delay_from_grid call whose threads are scheduled fairly.  SpecSampler   *)
(* follows one call of _common_delay through ray construction, truncation, *)
(* the model query and the integration, with the numbers the delays are    *)
(* made of.  SpecArgs follows one call of checkArgs on the parsed command  *)
(* line.                                                                   *)
(***************************************************************************)
EXTENDS Integers, Sequences, FiniteSets, TLC

\* Largest number of points in a batch.
MaxN == 3
\* Largest value os.cpu_count() takes.
MaxProcs == 4

RECURSIVE Prod(_)
Prod(s) == IF s = <<>> THEN 1 ELSE Head(s) * Prod(Tail(s))

Min(a, b) == IF a < b THEN a ELSE b

\* Array shapes without the trailing coordinate axis: 1-D and 2-D.
Shapes == {<<a>> : a \in 1..MaxN}
          \cup {s \in {<<a, b>> : a \in 1..MaxN, b \in 1..MaxN} : Prod(s) <= MaxN}

\* The points of a batch of n points, in flattened order.
Points(n) == [i \in 1..n |-> i]

\* An array of m look vectors (or incidence scalars): entry i is number i.
LosArray(m) == [zenith |-> FALSE, arr |-> [i \in 1..m |-> i]]
Zenith == [zenith |-> TRUE, arr |-> <<>>]

VARIABLES
    entry,        \* which entry point the caller invoked
    latShape, lonShape, htShape,   \* shapes of the lat / lon / height arrays
    losGiven,     \* FALSE: the los argument is Zenith (None for _tropo_delay_with_values)
    losShape,     \* shape of the line-of-sight raster / array (without vector axis)
    pts,          \* the points, in flattened order
    weather,      \* the atmospheric model: the point at which a query raises, or 0
    raytrace, parallel,
    num_procs,    \* os.cpu_count()
    pc,           \* position of the calling thread
    llasShape,    \* delay_from_grid: shape of the llas argument
    llas,         \* delay_from_grid: the point list
    los,          \* delay_from_grid: the los argument
    real_shape,   \* delay_from_grid: llas.shape[:-1]
    q,            \* _parmap: the job queue
    answers,      \* _parmap: the answer list
    threads,      \* _parmap: the worker threads
    parmap_result,    \* "none" | "returned" | "raised"
    queried,      \* whether the atmospheric model has been queried
    takes,        \* history: per unit, how many times it was dequeued
    writes,       \* history: per answer slot, how many times it was written
    outcome, err, \* how the entry point ended
    msg,          \* the message of the exception raised, as a list of parts
    hydro, wet, outShape   \* the returned arrays and their shape

\* One call of _common_delay, followed through its stages.
VARIABLES
    cd_pc,        \* position in _common_delay: "idle" when no call is followed
    delay,        \* argument delay: the query function of the atmospheric model
    heights,      \* argument heights, one per point of the batch
    cd_look_vecs, \* argument look_vecs: Zenith, look vectors, or incidence angles
    cd_raytrace,  \* argument raytrace
    cd_correction,    \* local correction
    lengths, steps, t_points_l, positions_a, wet_delays, indices, chunks,
    cd_delays,    \* local delays, the array returned
    cd_err        \* the exception the call raised, or ""

cd_args == <<delay, heights, cd_look_vecs, cd_raytrace>>
cd_locals == <<cd_correction, lengths, steps, t_points_l, positions_a, wet_delays,
               indices, chunks, cd_delays>>
sampler == <<cd_pc, cd_args, cd_locals, cd_err>>

\* One call of checkArgs(args, p).
VARIABLES
    args,         \* the parsed command-line arguments
    ca_pc,        \* position in checkArgs: "idle" when no call is followed
    ca_locals,    \* the locals set so far
    ca_outcome,   \* "none" | "returned" | "raised" | "exit" (p.error)
    ca_err,       \* the exception raised, or ""
    ca_result     \* the tuple returned

cli == <<args, ca_pc, ca_locals, ca_outcome, ca_err, ca_result>>

inputs == <<entry, latShape, lonShape, htShape, losGiven, losShape, pts, weather,
            num_procs>>
gridargs == <<llasShape, llas, los, raytrace, parallel>>
pool == <<q, answers, threads, parmap_result, takes, writes>>
results == <<outcome, err, msg, hydro, wet, outShape>>

vars == <<inputs, gridargs, pool, results, pc, real_shape, queried, sampler, cli>>

-----------------------------------------------------------------------------
(* _common_delay *)

Ok(v) == [err |-> "", val |-> v, q |-> TRUE]
Raise(e, wasQueried) == [err |-> e, val |-> <<>>, q |-> wasQueried]

\* An entry of np.zeros(lats.shape[0]) that no ray overwrote.
ZeroDelay(comp) == <<comp, 0, 0, 0>>

\* weather.hydrostatic_delay / weather.wet_delay raise on a batch of positions
\* that holds a ray from point p.
IsBad(p) == p = weather

\* _common_delay(delay, lats, lons, heights, look_vecs, raytrace) on the k points
\* lla: the delays, or the exception raised, and whether the model was queried.
common_delay(comp, lla, look_vecs, rt) ==
    LET k == Len(lla)
        correction == IF rt THEN <<>> ELSE look_vecs.arr
        lv == IF rt THEN look_vecs ELSE Zenith
        nrays == IF lv.zenith THEN k ELSE Len(lv.arr)
        delays == [i \in 1..k |->
                     IF i <= nrays
                       THEN <<comp, lla[i], IF lv.zenith THEN 0 ELSE lv.arr[i], 0>>
                       ELSE ZeroDelay(comp)]
        m == Len(correction)
    IN  IF ~rt /\ look_vecs.zenith THEN Raise("TypeError", FALSE)
        ELSE IF nrays > k THEN Raise("IndexError", FALSE)
        ELSE IF nrays = 0 THEN Raise("ValueError", FALSE)
        ELSE IF \E i \in 1..nrays : IsBad(lla[i]) THEN Raise("ModelError", TRUE)
        ELSE IF rt THEN Ok(delays)
        ELSE IF m = k
          THEN Ok([i \in 1..k |-> <<comp, lla[i], 0, correction[i]>>])
        ELSE IF m = 1
          THEN Ok([i \in 1..k |-> <<comp, lla[i], 0, correction[1]>>])
        ELSE Raise("ValueError", TRUE)

\* Variant of ArgsAfter: line 66 subtracts in place (heights -= _ZREF), which
\* writes through the view into the caller's point array.
ArgsAfterInPlace(lla, look_vecs, rt) ==
    [lla |-> IF ~rt \/ look_vecs.zenith THEN [i \in 1..Len(lla) |-> 0] ELSE lla,
     look_vecs |-> look_vecs]

\* The contents of the arrays passed to _common_delay when the call ends.  The
\* function binds new arrays to its names (lines 60-72) and writes in place
\* only to arrays it created: steps (85), indices (95) and delays (103, 107).
ArgsAfter(lla, look_vecs, rt) == [lla |-> lla, look_vecs |-> look_vecs]

hydrostatic_delay(lla, look_vecs, rt) == common_delay("hydro", lla, look_vecs, rt)
wet_delay(lla, look_vecs, rt) == common_delay("wet", lla, look_vecs, rt)

-----------------------------------------------------------------------------
(* delay_from_grid: work units *)

\* np.linspace(0, stop, num, dtype=int), 1-based.
Linspace(stop, num) ==
    [i \in 1..num |-> IF num = 1 THEN 0 ELSE ((i - 1) * stop) \div (num - 1)]

hydro_procs == num_procs \div 2
wet_procs == num_procs - hydro_procs
hindices == Linspace(Len(llas), hydro_procs + 1)

Job(type, i) == [type |-> type, start |-> hindices[i], end |-> hindices[i + 1]]

\* The generator hjobs.
hjobs == [i \in 1..hydro_procs |-> Job("hydro", i)]
\* The generator wjobs reads hindices[i + 1]: it yields a unit while i + 1 is an
\* index of hindices and raises IndexError at the first i where it is not.
wjobsYielded == Min(wet_procs, Len(hindices) - 1)
wjobs == [i \in 1..wjobsYielded |-> Job("wet", i)]
wjobsRaises == wet_procs > wjobsYielded
jobs == hjobs \o wjobs

\* Python's s[start:end] for 0 <= start <= end.
Slice(s, start, end) == SubSeq(s, Min(start, Len(s)) + 1, Min(end, Len(s)))

\* s with the entries from 0-based index start on replaced by those of part:
\* what writing through the view s[start:end] leaves in s.
Splice(s, start, part) ==
    [i \in 1..Len(s) |->
        IF start < i /\ i <= start + Len(part) THEN part[i - start] ELSE s[i]]

\* The arrays llas and los after go(job) has passed its slices of them (views)
\* to hydrostatic_delay or wet_delay.
ArraysAfterGo(job) ==
    LET my_los == IF los.zenith THEN Zenith
                  ELSE [zenith |-> FALSE, arr |-> Slice(los.arr, job.start, job.end)]
        after == ArgsAfter(Slice(llas, job.start, job.end), my_los, raytrace)
    IN  [llas |-> Splice(llas, job.start, after.lla),
         los |-> IF los.zenith THEN los
                 ELSE [los EXCEPT !.arr = Splice(los.arr, job.start,
                                                 after.look_vecs.arr)]]

\* The parallel worker go(job) of delay_from_grid.
go(job) ==
    LET my_los == IF los.zenith THEN Zenith
                  ELSE [zenith |-> FALSE, arr |-> Slice(los.arr, job.start, job.end)]
        lla == Slice(llas, job.start, job.end)
    IN  IF job.type = "hydro" THEN hydrostatic_delay(lla, my_los, raytrace)
        ELSE IF job.type = "wet" THEN wet_delay(lla, my_los, raytrace)
        ELSE Raise("ValueError", FALSE)

-----------------------------------------------------------------------------
(* Initial states: the caller's arguments *)

NoJob == [type |-> "none", start |-> 0, end |-> 0]
\* A worker thread: its position and the locals i, elem of go() while they are
\* live (from get_nowait() to the end of line 151).
NewThread == [pc |-> "new", idx |-> 0, job |-> NoJob]
LoopTop == [pc |-> "run", idx |-> 0, job |-> NoJob]
\* Variant of Ended: the worker goes back to the top of its loop.
StillRunning(how) == [pc |-> "run", idx |-> 0, job |-> NoJob]

Ended(how) == [pc |-> how, idx |-> 0, job |-> NoJob]

\* correction = None
NoCorrection == [none |-> TRUE, arr |-> <<>>]

\* No call of checkArgs is followed.
ArgsIdle ==
    /\ args = <<>> /\ ca_pc = "idle" /\ ca_locals = <<>>
    /\ ca_outcome = "none" /\ ca_err = "" /\ ca_result = <<>>

\* No call of _common_delay is followed on its own.
SamplerIdle ==
    /\ cd_pc = "idle" /\ cd_err = ""
    /\ delay = [kind |-> "const", c |-> 0]
    /\ heights = <<>> /\ cd_look_vecs = Zenith /\ cd_raytrace = TRUE
    /\ cd_correction = NoCorrection /\ lengths = <<>> /\ steps = <<>> /\ t_points_l = <<>>
    /\ positions_a = <<>> /\ wet_delays = <<>> /\ indices = <<>>
    /\ chunks = <<>> /\ cd_delays = <<>>

InitCommon ==
    /\ SamplerIdle /\ ArgsIdle
    /\ real_shape = <<>>
    /\ q = <<>> /\ answers = <<>> /\ threads = <<>>
    /\ parmap_result = "none"
    /\ queried = FALSE
    /\ takes = <<>> /\ writes = <<>>
    /\ outcome = "none" /\ err = "" /\ msg = <<>>
    /\ hydro = <<>> /\ wet = <<>> /\ outShape = <<>>
    /\ num_procs \in 1..MaxProcs

\* delay_from_grid(weather, llas, los, parallel, raytrace) called directly with
\* a point array of shape S + (3,) and, when los is an array, one entry per point.
InitGrid ==
    /\ entry = "grid"
    /\ latShape \in Shapes /\ lonShape = latShape /\ htShape = latShape
    /\ losGiven \in BOOLEAN
    /\ losShape = IF losGiven THEN latShape ELSE <<>>
    /\ pts = Points(Prod(latShape))
    /\ weather \in 0..Len(pts)
    /\ raytrace \in BOOLEAN /\ parallel \in BOOLEAN
    /\ llasShape = latShape \o <<3>>
    /\ llas = pts
    /\ los = IF losGiven THEN LosArray(Prod(latShape)) ELSE Zenith
    /\ pc = "grid"
    /\ InitCommon

\* delay_from_files(weather, lat, lon, ht, parallel, los, raytrace): the rasters
\* read by util.gdal_open have any shapes.
InitFiles ==
    /\ entry = "files"
    /\ latShape \in Shapes /\ lonShape \in Shapes /\ htShape \in Shapes
    /\ losGiven \in BOOLEAN
    /\ losShape \in IF losGiven THEN Shapes ELSE {<<>>}
    /\ pts = IF latShape = lonShape /\ lonShape = htShape
               THEN Points(Prod(latShape)) ELSE <<>>
    /\ weather \in 0..Len(pts)
    /\ raytrace \in BOOLEAN /\ parallel \in BOOLEAN
    /\ llasShape = <<>> /\ llas = <<>> /\ los = Zenith
    /\ pc = "files"
    /\ InitCommon

\* _tropo_delay_with_values(los, lats, lons, hts, weather, zref, out, time)
InitValues ==
    /\ entry = "values"
    /\ latShape \in Shapes /\ lonShape \in Shapes /\ htShape \in Shapes
    /\ losGiven \in BOOLEAN
    /\ losShape \in IF losGiven THEN Shapes ELSE {<<>>}
    /\ pts = IF latShape = lonShape /\ lonShape = htShape
               THEN Points(Prod(latShape)) ELSE <<>>
    /\ weather \in 0..Len(pts)
    /\ raytrace = FALSE /\ parallel = FALSE
    /\ llasShape = <<>> /\ llas = <<>> /\ los = Zenith
    /\ pc = "values"
    /\ InitCommon

Init == InitGrid \/ InitFiles \/ InitValues

-----------------------------------------------------------------------------
(* Entry points: shape validation *)

\* raise e(m): the entry point ends with exception e carrying message m.
RaiseMsg(e, m) ==
    /\ outcome' = "raised" /\ err' = e /\ msg' = m
    /\ pc' = "done"
    /\ UNCHANGED <<hydro, wet, outShape>>

RaiseOut(e) == RaiseMsg(e, <<>>)

\* The parts of a string literal: plain text, or a replacement field "{expr}".
\* A part of an evaluated string is text or the printed value of a shape.
Text(s) == [kind |-> "text", text |-> s, shape |-> <<>>]
Field(e) == [kind |-> "field", text |-> e, shape |-> <<>>]
Value(v) == [kind |-> "value", text |-> "", shape |-> v]

\* The value of one string literal.  With the prefix f every replacement field
\* is evaluated in env and printed; without it the braces and the expression
\* between them are ordinary characters of the string.
Literal(isF, parts, env) ==
    [i \in 1..Len(parts) |->
        IF parts[i].kind # "field" THEN parts[i]
        ELSE IF isF THEN Value(env[parts[i].text])
        ELSE Text(parts[i].text)]

\* Evaluating an f-string raises when a field reads an attribute that does not
\* exist (the class Zenith has no attribute shape).
LiteralRaises(isF, parts, env) ==
    isF /\ \E i \in 1..Len(parts) :
               parts[i].kind = "field" /\ parts[i].text \notin DOMAIN env

\* delay_from_files, lines 256-258: three adjacent literals, the first an
\* f-string, concatenated.
FilesEnv ==
    [e \in {"{lats.shape}", "{lons.shape}", "{hts.shape}"} |->
        IF e = "{lats.shape}" THEN latShape
        ELSE IF e = "{lons.shape}" THEN lonShape ELSE htShape]

FilesMessage ==
    Literal(TRUE, <<Text("lat, lon, and ht should have the same shape, but ")>>,
            FilesEnv)
    \o Literal(FALSE, <<Text("instead lat had shape "), Field("{lats.shape}"),
                        Text(", lon had shape ")>>, FilesEnv)
    \o Literal(FALSE, <<Field("{lons.shape}"), Text(", and ht had shape "),
                        Field("{hts.shape}")>>, FilesEnv)

\* _tropo_delay_with_values, lines 279-281: three adjacent literals, the
\* second an f-string.  los is the class Zenith or the array of infer_los.
ValuesEnv ==
    [e \in {"{lats.shape}", "{lons.shape}", "{hts.shape}"}
              \cup (IF losGiven THEN {"{los.shape}"} ELSE {}) |->
        IF e = "{lats.shape}" THEN latShape
        ELSE IF e = "{lons.shape}" THEN lonShape
        ELSE IF e = "{hts.shape}" THEN htShape
        ELSE losShape \o <<3>>]

ValuesPiece1 ==
    <<Text("I need lats, lons, heights, and los to all be the same shape. ")>>
ValuesPiece2 ==
    <<Text("lats had shape "), Field("{lats.shape}"), Text(", lons had shape "),
      Field("{lons.shape}"), Text(", ")>>
ValuesPiece3 ==
    <<Text("heights had shape "), Field("{hts.shape}"),
      Text(", and los had shape "), Field("{los.shape}")>>

ValuesMessage ==
    Literal(FALSE, ValuesPiece1, ValuesEnv)
    \o Literal(TRUE, ValuesPiece2, ValuesEnv)
    \o Literal(FALSE, ValuesPiece3, ValuesEnv)

ValuesMessageRaises ==
    \/ LiteralRaises(FALSE, ValuesPiece1, ValuesEnv)
    \/ LiteralRaises(TRUE, ValuesPiece2, ValuesEnv)
    \/ LiteralRaises(FALSE, ValuesPiece3, ValuesEnv)

\* losreader.los_to_lv(incidence, heading, lats, lons, hts, zref).reshape(-1, 3)
\* and losreader.infer_los(los, lats, lons, hts, zref): one look vector per
\* pixel of the line-of-sight input of shape s.
los_to_lv(s) == LosArray(Prod(s))
infer_los(s) == LosArray(Prod(s))
\* incidence.flatten()
flatten(s) == LosArray(Prod(s))

\* Mutant of FilesShapesAgree: the height raster is left out of the comparison.
FilesShapesAgreeLatLon == latShape = lonShape

\* delay_from_files, line 255
FilesShapesAgree == latShape = lonShape /\ lonShape = htShape

\* delay_from_files up to the call of delay_from_grid
FilesValidate ==
    /\ pc = "files"
    /\ IF ~FilesShapesAgree
         THEN /\ RaiseMsg("ShapeMismatch", FilesMessage)
              /\ UNCHANGED gridargs
         ELSE /\ llas' = pts
              /\ llasShape' = <<Prod(latShape), 3>>
              /\ los' = IF ~losGiven THEN Zenith
                        ELSE IF raytrace THEN los_to_lv(losShape)
                        ELSE flatten(losShape)
              /\ pc' = "grid"
              /\ UNCHANGED <<raytrace, parallel, results>>
    /\ UNCHANGED <<cli, sampler, inputs, pool, real_shape, queried>>

\* _tropo_delay_with_values, lines 276-277
ValuesShapesAgree ==
    /\ htShape = latShape /\ latShape = lonShape
    /\ ~(losGiven /\ losShape # htShape)

\* _tropo_delay_with_values up to the call of delay_from_grid
ValuesValidate ==
    /\ pc = "values"
    /\ IF ~ValuesShapesAgree
         THEN /\ IF ValuesMessageRaises
                   THEN RaiseOut("AttributeError")
                   ELSE RaiseMsg("ShapeMismatch", ValuesMessage)
              /\ UNCHANGED gridargs
         ELSE /\ llas' = pts
              /\ llasShape' = latShape \o <<3>>
              /\ los' = IF losGiven THEN infer_los(losShape) ELSE Zenith
              /\ parallel' = TRUE /\ raytrace' = TRUE
              /\ pc' = "grid"
              /\ UNCHANGED results
    /\ UNCHANGED <<cli, sampler, inputs, pool, real_shape, queried>>

-----------------------------------------------------------------------------
(* delay_from_grid *)

ButLast(s) == SubSeq(s, 1, Len(s) - 1)

\* np.stack((hydro, wet)).reshape((2,) + shape): the error it raises, or "".
RestoreShape(h, w, shape) ==
    IF Len(h) # Len(w) THEN "ValueError"
    ELSE IF Len(h) # Prod(shape) THEN "ValueError"
    ELSE ""

\* The shape of the arrays handed back to the caller of the entry point:
\* delay_from_files reshapes once more, to lats.shape (line 263).
ReturnedShape(shape) == IF entry = "files" THEN latShape ELSE shape

\* Lines 231-234 (and 263-264 for delay_from_files): restore the shape, return.
GridReturn(h, w, shape) ==
    LET e == RestoreShape(h, w, shape) IN
    IF e # "" THEN RaiseOut(e)
    ELSE /\ outcome' = "returned" /\ err' = "" /\ msg' = msg
         /\ hydro' = h /\ wet' = w
         /\ outShape' = ReturnedShape(shape)
         /\ pc' = "done"

\* delay_from_grid with parallel=False, lines 174-186 and 226-234
GridSerial ==
    /\ pc = "grid" /\ ~parallel
    /\ real_shape' = ButLast(llasShape)
    /\ LET h == hydrostatic_delay(llas, los, raytrace)
           w == wet_delay(llas, los, raytrace)
       IN  IF h.err # ""
             THEN RaiseOut(h.err) /\ queried' = (queried \/ h.q)
           ELSE IF w.err # ""
             THEN RaiseOut(w.err) /\ queried' = TRUE
           ELSE GridReturn(h.val, w.val, real_shape') /\ queried' = TRUE
    /\ llas' = ArgsAfter(llas, los, raytrace).lla
    /\ los' = ArgsAfter(llas, los, raytrace).look_vecs
    /\ UNCHANGED <<cli, sampler, inputs, llasShape, raytrace, parallel, pool>>

NoneAnswer == [set |-> FALSE, val |-> <<>>]

\* Variant of pool_size: one thread per hydrostatic unit only.
pool_size_half == hydro_procs

\* The number of threads _parmap creates: range(os.cpu_count()), line 153.
pool_size == num_procs

\* delay_from_grid with parallel=True, lines 174-202, entering _parmap(go, jobs):
\* the loop of lines 141-143 draws the units from the generators and enqueues them.
GridParallelEnqueue ==
    /\ pc = "grid" /\ parallel
    /\ real_shape' = ButLast(llasShape)
    /\ IF wjobsRaises
         THEN /\ parmap_result' = "raised"
              /\ RaiseOut("IndexError")
              /\ UNCHANGED <<q, answers, threads, takes, writes>>
         ELSE /\ q' = [i \in 1..Len(jobs) |-> [idx |-> i, job |-> jobs[i]]]
              /\ answers' = [i \in 1..Len(jobs) |-> NoneAnswer]
              /\ threads' = [t \in 1..pool_size |-> NewThread]
              /\ takes' = [i \in 1..Len(jobs) |-> 0]
              /\ writes' = [i \in 1..Len(jobs) |-> 0]
              /\ pc' = "start"
              /\ UNCHANGED <<parmap_result, results>>
    /\ UNCHANGED <<cli, sampler, inputs, gridargs, queried>>

-----------------------------------------------------------------------------
(* _parmap *)

\* threads = [...]; for thread in threads: thread.start()   (lines 153-156).
\* A thread started later than another is, until its first step, in the state
\* of one started at once, so the loop is one step.
StartThreads ==
    /\ pc = "start"
    /\ threads' = [t \in DOMAIN threads |-> LoopTop]
    /\ pc' = "join"
    /\ UNCHANGED <<cli, sampler, inputs, gridargs, results, real_shape, queried,
                   q, answers, parmap_result, takes, writes>>

\* Mutant of QueueAfterGet: the unit is read but left in the queue.
QueueAfterPeek(queue) == queue

\* What q.get_nowait() leaves in the queue.
QueueAfterGet(queue) == Tail(queue)

\* go() of _parmap, lines 146-150: take a unit, or leave the loop on queue.Empty.
WorkerGet(t) ==
    /\ t \in DOMAIN threads
    /\ threads[t].pc = "run"
    /\ IF q = <<>>
         THEN /\ threads' = [threads EXCEPT ![t] = Ended("exit")]
              /\ UNCHANGED <<q, takes>>
         ELSE /\ threads' = [threads EXCEPT ![t] =
                    [pc |-> "work", idx |-> Head(q).idx, job |-> Head(q).job]]
              /\ q' = QueueAfterGet(q)
              /\ takes' = [takes EXCEPT ![Head(q).idx] = @ + 1]
    /\ UNCHANGED <<cli, sampler, inputs, gridargs, results, real_shape, queried, pc,
                   answers, parmap_result, writes>>

\* Mutant of StoreAnswer: answers are stored in completion order (the first
\* unset slot), not at the unit's index.
StoreAnswerNextFree(ans, i, value) ==
    LET free == CHOOSE j \in 1..Len(ans) :
                    ~ans[j].set /\ \A k \in 1..(j - 1) : ans[k].set
    IN  [ans EXCEPT ![free] = [set |-> TRUE, val |-> value]]

\* answers[i] = value
StoreAnswer(ans, i, value) == [ans EXCEPT ![i] = [set |-> TRUE, val |-> value]]

\* go() of _parmap, line 151: answers[i] = f(elem).  An exception raised by f
\* is not caught in go: it ends the thread (threading reports it and returns).
WorkerCompute(t) ==
    /\ t \in DOMAIN threads
    /\ threads[t].pc = "work"
    /\ LET r == go(threads[t].job) IN
         /\ queried' = (queried \/ r.q)
         /\ IF r.err # ""
              THEN /\ threads' = [threads EXCEPT ![t] = Ended("died")]
                   /\ UNCHANGED <<answers, writes>>
              ELSE /\ answers' = StoreAnswer(answers, threads[t].idx, r.val)
                   /\ writes' = [writes EXCEPT ![threads[t].idx] = @ + 1]
                   /\ threads' = [threads EXCEPT ![t] = LoopTop]
    /\ llas' = ArraysAfterGo(threads[t].job).llas
    /\ los' = ArraysAfterGo(threads[t].job).los
    /\ UNCHANGED <<cli, sampler, inputs, llasShape, raytrace, parallel, results,
                   real_shape, pc, q, parmap_result, takes>>

\* Mutant of Joinable: join() does not wait for a started thread.
JoinableOnceStarted(t) == threads[t].pc # "new"

\* thread.join() returns once the thread has ended.
Joinable(t) == threads[t].pc \in {"exit", "died"}

\* for thread in threads: thread.join(); return answers   (lines 158-161).
\* join() has no effect but to wait, so the loop ends when every thread has ended.
ParmapReturn ==
    /\ pc = "join"
    /\ \A t \in DOMAIN threads : Joinable(t)
    /\ parmap_result' = "returned"
    /\ pc' = "collect"
    /\ UNCHANGED <<cli, sampler, inputs, gridargs, results, real_shape, queried,
                   q, answers, threads, takes, writes>>

-----------------------------------------------------------------------------
(* delay_from_grid: collecting the results *)

RECURSIVE Flatten(_)
Flatten(ss) == IF ss = <<>> THEN <<>> ELSE Head(ss).val \o Flatten(Tail(ss))

\* np.concatenate(list of answers): ValueError on an empty list and on a None.
Concatenate(ss) ==
    IF ss = <<>> THEN Raise("ValueError", FALSE)
    ELSE IF \E i \in 1..Len(ss) : ~ss[i].set THEN Raise("ValueError", FALSE)
    ELSE Ok(Flatten(ss))

\* result[:hydro_procs] and result[hydro_procs:]
HydroPart(result) == SubSeq(result, 1, Min(hydro_procs, Len(result)))
WetPart(result) == SubSeq(result, Min(hydro_procs, Len(result)) + 1, Len(result))

\* delay_from_grid, lines 223-234
GridCollect ==
    /\ pc = "collect"
    /\ LET h == Concatenate(HydroPart(answers))
           w == Concatenate(WetPart(answers))
       IN  IF h.err # "" THEN RaiseOut(h.err)
           ELSE IF w.err # "" THEN RaiseOut(w.err)
           ELSE GridReturn(h.val, w.val, real_shape)
    /\ UNCHANGED <<cli, sampler, inputs, gridargs, pool, real_shape, queried>>

-----------------------------------------------------------------------------

Workers == 1..MaxProcs

Next ==
    \/ FilesValidate
    \/ ValuesValidate
    \/ GridSerial
    \/ GridParallelEnqueue
    \/ StartThreads
    \/ \E t \in Workers : WorkerGet(t)
    \/ \E t \in Workers : WorkerCompute(t)
    \/ ParmapReturn
    \/ GridCollect

Spec == Init /\ [][Next]_vars

\* A parallel delay_from_grid call on its own, with threads that the scheduler
\* runs: a thread that can take its next step eventually takes it, and so does
\* the caller.
DispatchInit == InitGrid /\ parallel

DispatchNext ==
    \/ GridParallelEnqueue
    \/ StartThreads
    \/ \E t \in Workers : WorkerGet(t)
    \/ \E t \in Workers : WorkerCompute(t)
    \/ ParmapReturn
    \/ GridCollect

DispatchFairness ==
    /\ WF_vars(StartThreads) /\ WF_vars(ParmapReturn) /\ WF_vars(GridCollect)
    /\ \A t \in Workers : WF_vars(WorkerGet(t)) /\ WF_vars(WorkerCompute(t))

SpecDispatch == DispatchInit /\ [][DispatchNext]_vars /\ DispatchFairness

-----------------------------------------------------------------------------
(***************************************************************************)
(* _common_delay, stage by stage.                                          *)
(*                                                                         *)
(* Heights and lengths are whole metres.  A look vector is the record      *)
(* [len, dz]: its norm and the geodetic height gained over its whole       *)
(* length; the height changes linearly along it.  The path parameters of a *)
(* ray are fractions num / den with one den per ray, a sample position is  *)
(* its point, its path parameter and its height hn / hd, and a delay is a  *)
(* fraction num / den in units of 1e-6, all in exact arithmetic.  A value  *)
(* returned by the model query carries the position it was returned for.   *)
(***************************************************************************)

\* _STEP
STEP == 15
\* _ZREF = util.zref
ZREF == 100

Abs(x) == IF x < 0 THEN -x ELSE x

\* Lines 63-66: the local vertical scaled by (_ZREF - heights).
ZenithVector(h) == [len |-> Abs(ZREF - h), dz |-> ZREF - h]

\* 1/util.cosd(incidence), for an incidence of 0 or 60 degrees.
SecD(inc) == IF inc = 0 THEN 1 ELSE 2

\* Lines 57-60
Correction(lv, rt) ==
    IF rt THEN NoCorrection
    ELSE [none |-> FALSE, arr |-> [i \in 1..Len(lv.arr) |-> SecD(lv.arr[i])]]

\* Lines 61-66: the look vectors the rays are built from.
RayVectors(hs, lv, rt) ==
    IF ~rt \/ lv.zenith THEN [i \in 1..Len(hs) |-> ZenithVector(hs[i])]
    ELSE lv.arr

\* np.ceil(length / _STEP)
StepsFor(length) == (length + STEP - 1) \div STEP

\* np.linspace(0, length, num): the numerators of its values over SpaceDen(num).
\* One value is 0 alone; two or more run from 0 to length in num - 1 intervals.
SpaceDen(num) == IF num > 1 THEN num - 1 ELSE 1
thisspace(length, num) ==
    [j \in 1..num |-> IF num = 1 THEN 0 ELSE (j - 1) * length]

\* start_positions[i] + t * scaled_look_vecs[i] for t = tn / td (lines 70-79),
\* with the height util.ecef2lla gives for it.
Position(i, h, v, tn, td) ==
    [pt |-> i, tn |-> tn, td |-> td,
     hn |-> h * td * v.len + tn * v.dz, hd |-> td * v.len]

\* Lines 77-79: the candidate samples of ray i.
Candidates(i, h, v) ==
    LET num == StepsFor(v.len)
        sp == thisspace(v.len, num)
    IN  [j \in 1..num |-> Position(i, h, v, sp[j], SpaceDen(num))]

\* Variant of Exceeds: the comparison is turned around.
ExceedsFlipped(pos, zref) == pos.hn < zref * pos.hd

\* positions_lla[2] > zref
Exceeds(pos, zref) == pos.hn > zref * pos.hd

\* Variant of _too_high: counts the positions that do not exceed zref.
too_high_count(positions, zref) ==
    Cardinality({j \in 1..Len(positions) : ~Exceeds(positions[j], zref)})

\* _too_high(positions, zref): the 0-based index of the first position higher
\* than zref, len(positions) when there is none.
too_high(positions, zref) ==
    LET high_indices == {j \in 1..Len(positions) : Exceeds(positions[j], zref)}
    IN  IF high_indices # {}
          THEN (CHOOSE j \in high_indices : \A k \in high_indices : j <= k) - 1
          ELSE Len(positions)

\* position[:first_high_index] of ray i (lines 80, 82)
KeptPositions(i, h, v) ==
    LET position == Candidates(i, h, v)
    IN  SubSeq(position, 1, too_high(position, ZREF))

\* thisspace[:first_high_index] of ray i (line 81): each kept path parameter.
KeptTPoints(i, h, v) ==
    LET kept == KeptPositions(i, h, v)
    IN  [j \in 1..Len(kept) |-> [num |-> kept[j].tn, den |-> kept[j].td]]

RECURSIVE ConcatAll(_)
ConcatAll(ss) == IF ss = <<>> THEN <<>> ELSE Head(ss) \o ConcatAll(Tail(ss))

\* weather.hydrostatic_delay / weather.wet_delay at one position: a constant
\* model returns c everywhere, any other a value that depends on the position.
QueryValue(d, pos) == IF d.kind = "const" THEN d.c ELSE pos.pt + pos.tn

\* delay(positions_a): one value per position, in order.
Query(d, positions) ==
    [k \in 1..Len(positions) |->
        [at |-> positions[k], val |-> QueryValue(d, positions[k])]]

RECURSIVE CumSum(_)
CumSum(xs) ==
    IF xs = <<>> THEN <<>>
    ELSE LET before == CumSum(SubSeq(xs, 1, Len(xs) - 1))
         IN  Append(before,
                    xs[Len(xs)] + (IF before = <<>> THEN 0 ELSE before[Len(before)]))

\* np.roll(a, 1)
Roll(a) == IF a = <<>> THEN <<>> ELSE <<a[Len(a)]>> \o SubSeq(a, 1, Len(a) - 1)

\* Variant of StartIndices: the cumulative sums are not shifted.
StartIndicesUnshifted(st) == CumSum(st)

\* Lines 92-95: indices = np.roll(np.cumsum(steps), 1); indices[0] = 0
StartIndices(st) == [Roll(CumSum(st)) EXCEPT ![1] = 0]

RECURSIVE TrapzNum(_, _)
\* np.trapz(y, x): the numerator, over twice the denominator of x, of
\* sum (x[j+1] - x[j]) * (y[j] + y[j+1]) / 2; 0 for fewer than two samples.
TrapzNum(y, x) ==
    IF Len(y) < 2 THEN 0
    ELSE (x[2].num - x[1].num) * (y[1].val + y[2].val) + TrapzNum(Tail(y), Tail(x))

\* 1e-6 * np.trapz(chunk, t_points), in units of 1e-6
Trapz(chunk, t_points) ==
    [num |-> TrapzNum(chunk, t_points),
     den |-> 2 * (IF t_points = <<>> THEN 1 ELSE t_points[1].den)]

\* Variant of Corrected: the correction is added to the delay.
CorrectedAdd(d, c) == [num |-> d.num + c * d.den, den |-> d.den]

\* One entry of delays *= correction
Corrected(d, c) == [num |-> d.num * c, den |-> d.den]

\* _common_delay as a function of its arguments, for a call that returns.
CommonDelay(d, hs, lv, rt) ==
    LET rays == 1..Len(hs)
        vecs == RayVectors(hs, lv, rt)
        kept == [i \in rays |-> KeptPositions(i, hs[i], vecs[i])]
        st == [i \in rays |-> Len(kept[i])]
        wd == Query(d, ConcatAll(kept))
        idx == StartIndices(st)
        raw == [i \in rays |->
                   Trapz(Slice(wd, idx[i], idx[i] + st[i]),
                         KeptTPoints(i, hs[i], vecs[i]))]
        corr == Correction(lv, rt)
    IN  IF corr.none THEN raw
        ELSE [i \in rays |-> Corrected(raw[i], corr.arr[i])]

\* The state of the orchestration, which a call followed on its own leaves alone.
orchestration == <<inputs, gridargs, pool, results, pc, real_shape, queried>>

\* Lines 56-87: correction, look vectors, lengths, steps, and the truncated
\* samples of every ray.
BuildRays ==
    /\ cd_pc = "entry"
    /\ IF ~cd_raytrace /\ cd_look_vecs.zenith
         THEN /\ cd_pc' = "raised" /\ cd_err' = "TypeError"
              /\ UNCHANGED cd_locals
         ELSE LET vecs == RayVectors(heights, cd_look_vecs, cd_raytrace)
                  rays == 1..Len(heights)
              IN  /\ cd_correction' = Correction(cd_look_vecs, cd_raytrace)
                  /\ lengths' = [i \in rays |-> vecs[i].len]
                  /\ t_points_l' = [i \in rays |-> KeptTPoints(i, heights[i], vecs[i])]
                  /\ steps' = [i \in rays |->
                                  Len(KeptPositions(i, heights[i], vecs[i]))]
                  /\ positions_a' = ConcatAll([i \in rays |->
                                        KeptPositions(i, heights[i], vecs[i])])
                  /\ cd_pc' = "query" /\ cd_err' = ""
                  /\ UNCHANGED <<wet_delays, indices, chunks, cd_delays>>
    /\ UNCHANGED <<cli, orchestration, cd_args>>

\* Line 89: wet_delays = delay(positions_a)
QueryModel ==
    /\ cd_pc = "query"
    /\ wet_delays' = Query(delay, positions_a)
    /\ cd_pc' = "integrate"
    /\ UNCHANGED <<cli, orchestration, cd_args, cd_err, cd_correction, lengths, steps,
                   t_points_l, positions_a, indices, chunks, cd_delays>>

\* Lines 91-103: the start index and the chunk of every ray, and its integral.
Integrate ==
    /\ cd_pc = "integrate"
    /\ LET idx == StartIndices(steps)
           chunk(i) == Slice(wet_delays, idx[i], idx[i] + steps[i])
           rays == 1..Len(steps)
       IN  /\ indices' = idx
           /\ chunks' = [i \in rays |-> chunk(i)]
           /\ IF \E i \in rays : Len(chunk(i)) # Len(t_points_l[i])
                THEN /\ cd_pc' = "raised" /\ cd_err' = "ValueError"
                     /\ UNCHANGED cd_delays
                ELSE /\ cd_delays' = [i \in rays |-> Trapz(chunk(i), t_points_l[i])]
                     /\ cd_pc' = "correct" /\ cd_err' = ""
    /\ UNCHANGED <<cli, orchestration, cd_args, cd_correction, lengths, steps,
                   t_points_l, positions_a, wet_delays>>

\* Lines 105-109: the cosine correction, and the return.
Correct ==
    /\ cd_pc = "correct"
    /\ cd_delays' = IF cd_correction.none THEN cd_delays
                    ELSE [i \in 1..Len(cd_delays) |->
                             Corrected(cd_delays[i], cd_correction.arr[i])]
    /\ cd_pc' = "done"
    /\ UNCHANGED <<cli, orchestration, cd_args, cd_err, cd_correction, lengths, steps,
                   t_points_l, positions_a, wet_delays, indices, chunks>>

\* Largest number of rays in a batch followed on its own.
MaxRays == 2
\* Largest number of samples of a ray that starts below the reference height.
MaxSteps == 3

\* Heights of the points: at, just below and a whole number of steps below the
\* reference height, and above it.
HeightSet ==
    {ZREF - (k * STEP + e) : k \in 0..(MaxSteps - 1), e \in {0, 1}}
    \cup {ZREF + 1, ZREF + STEP + 1}

\* Look vectors of a point at height h: straight to the reference height,
\* straight up through it, and level.
LookVecsAt(h) ==
    {ZenithVector(h), [len |-> 2 * STEP + 1, dz |-> 2 * STEP + 1],
     [len |-> STEP + 1, dz |-> 0]}

Incidences == {0, 60}

IsVectorBatch(hs, arr) ==
    /\ Len(arr) = Len(hs)
    /\ \A i \in 1..Len(hs) : arr[i] \in LookVecsAt(hs[i])

OrchestrationIdle ==
    /\ entry = "none" /\ pc = "idle"
    /\ latShape = <<>> /\ lonShape = <<>> /\ htShape = <<>>
    /\ losGiven = FALSE /\ losShape = <<>>
    /\ pts = <<>> /\ weather = 0 /\ num_procs = 1
    /\ raytrace = TRUE /\ parallel = FALSE
    /\ llasShape = <<>> /\ llas = <<>> /\ los = Zenith
    /\ real_shape = <<>>
    /\ q = <<>> /\ answers = <<>> /\ threads = <<>>
    /\ parmap_result = "none" /\ queried = FALSE
    /\ takes = <<>> /\ writes = <<>>
    /\ outcome = "none" /\ err = "" /\ msg = <<>>
    /\ hydro = <<>> /\ wet = <<>> /\ outShape = <<>>

AllVectors == UNION {LookVecsAt(h) : h \in HeightSet}

\* _common_delay(delay, lats, lons, heights, look_vecs, raytrace) called with
\* one look vector (raytrace) or one incidence angle (projection) per point,
\* or with Zenith.
SamplerInit ==
    /\ OrchestrationIdle /\ ArgsIdle
    /\ cd_pc = "entry" /\ cd_err = ""
    /\ delay \in {[kind |-> "const", c |-> 2], [kind |-> "ramp", c |-> 0]}
    /\ \E n \in 1..MaxRays : heights \in [1..n -> HeightSet]
    /\ cd_raytrace \in BOOLEAN
    /\ \/ cd_look_vecs = Zenith
       \/ /\ cd_raytrace
          /\ \E arr \in [1..Len(heights) -> AllVectors] :
                /\ IsVectorBatch(heights, arr)
                /\ cd_look_vecs = [zenith |-> FALSE, arr |-> arr]
       \/ /\ ~cd_raytrace
          /\ \E arr \in [1..Len(heights) -> Incidences] :
                cd_look_vecs = [zenith |-> FALSE, arr |-> arr]
    /\ cd_correction = NoCorrection /\ lengths = <<>> /\ steps = <<>>
    /\ t_points_l = <<>> /\ positions_a = <<>> /\ wet_delays = <<>>
    /\ indices = <<>> /\ chunks = <<>> /\ cd_delays = <<>>

SamplerNext == BuildRays \/ QueryModel \/ Integrate \/ Correct

SpecSampler == SamplerInit /\ [][SamplerNext]_vars

-----------------------------------------------------------------------------
(***************************************************************************)
(* checkArgs(args, p) of tools/RAiDER/checkArgs.py.                        *)
(*                                                                         *)
(* An argument that was not given is "None"; a file or list argument that  *)
(* was given is "given".  readLL, AllowedModels and the import of the      *)
(* model's module are outside this file and return; the model names drawn  *)
(* are two allowed ones and one that is not, and none is 'pickle' (line    *)
(* 100).  zref, out, download_only and verbose are copied to the result    *)
(* unread and are left out.                                                *)
(***************************************************************************)

None == "None"
Given == {None, "given"}

\* am.AllowedModels(), for the model names drawn.
AllowedModels == {"ERA-5", "WRF"}

\* str.lower()
Lower(x) ==
    CASE x = "ENVI" -> "envi"
      [] x = "ERA-5" -> "era-5"
      [] x = "WRF" -> "wrf"
      [] x = "MERRA-9" -> "merra-9"
      [] OTHER -> x

\* str.replace('-', '')
NoHyphen(x) ==
    CASE x = "era-5" -> "era5"
      [] x = "merra-9" -> "merra9"
      [] OTHER -> x

\* datetime.strftime(time, '%Y_%m_%d_T%H_%M_%S'): the stamp, or "TypeError"
\* when time is not a datetime.
Strftime(time) ==
    IF time = None THEN [err |-> "TypeError", val |-> ""]
    ELSE [err |-> "", val |-> "2018_01_02_T03_04_05"]

\* '{}_Lon_{}.dat'.format(model, stamp) and '{}_Lat_{}.dat'.format(...)
FileName(which, model, stamp) == <<model, "_", which, "_", stamp, ".dat">>

\* The process ends: an exception, or p.error (which prints and exits).
ArgsEnd(how, e) ==
    /\ ca_outcome' = how /\ ca_err' = e
    /\ ca_pc' = "done"
    /\ UNCHANGED <<ca_locals, ca_result>>

\* Lines 43-54 pass.
ArgsPassChecks(a) ==
    /\ ~(a.heightlvs # None /\ a.outformat # "hdf5")
    /\ ~(a.area = None /\ a.bounding_box = None /\ a.wmnetcdf = None
         /\ a.station_file = None)
    /\ ~(a.time = None /\ a.wmnetcdf = None)
    /\ a.model \in AllowedModels
    /\ ~(a.model = "WRF" /\ a.wrfmodelfiles = None)

\* Lines 43-54: the compatibility checks.
CheckArgsValidate ==
    /\ ca_pc = "check"
    /\ IF args.heightlvs # None /\ args.outformat # "hdf5"
         THEN ArgsEnd("raised", "ValueError")
       ELSE IF /\ args.area = None /\ args.bounding_box = None
               /\ args.wmnetcdf = None /\ args.station_file = None
         THEN ArgsEnd("raised", "ValueError")
       ELSE IF args.time = None /\ args.wmnetcdf = None
         THEN ArgsEnd("exit", "")
       ELSE IF args.model \notin AllowedModels
         THEN ArgsEnd("raised", "NotImplementedError")
       ELSE IF args.model = "WRF" /\ args.wrfmodelfiles = None
         THEN ArgsEnd("exit", "")
       ELSE /\ ca_pc' = "names"
            /\ UNCHANGED <<ca_locals, ca_outcome, ca_err, ca_result>>
    /\ UNCHANGED <<args, orchestration, sampler>>

\* Lines 57-80: line of sight, area, and the names of the lat / lon files.
CheckArgsNames ==
    /\ ca_pc = "names"
    /\ LET l == IF args.lineofsight # None THEN <<"los", args.lineofsight>>
                ELSE IF args.statevectors # None THEN <<"sv", args.statevectors>>
                ELSE Zenith
           ll == IF args.area # None THEN "readLL(area)"
                 ELSE IF args.bounding_box # None THEN "readLL(bounding_box)"
                 ELSE IF args.station_file # None THEN "readLL(station_file)"
                 ELSE None
           stamp == Strftime(args.time)
       IN  IF stamp.err # ""
             THEN ArgsEnd("raised", stamp.err)
             ELSE /\ ca_locals' =
                        [los |-> l, lat |-> ll, lon |-> ll,
                         lonFileName |-> FileName("Lon", NoHyphen(Lower(args.model)),
                                                  stamp.val),
                         latFileName |-> FileName("Lat", NoHyphen(Lower(args.model)),
                                                  stamp.val)]
                  /\ ca_pc' = "rest"
                  /\ UNCHANGED <<ca_outcome, ca_err, ca_result>>
    /\ UNCHANGED <<args, orchestration, sampler>>

\* Lines 119-125: args.outformat, set when it was not given.
DefaultedOutFormat(a) ==
    IF a.outformat # None THEN a.outformat
    ELSE IF a.heightlvs # None THEN "hdf5"
    ELSE IF a.station_file # None THEN "netcdf"
    ELSE "ENVI"

\* Lines 128-141: the output format returned.
OutFormat(a) ==
    IF a.heightlvs # None THEN "hdf5"
    ELSE IF a.station_file # None THEN "netcdf"
    ELSE IF Lower(DefaultedOutFormat(a)) = "hdf5" THEN "ENVI"
    ELSE Lower(DefaultedOutFormat(a))

\* Lines 87-161: heights, weather, the remaining values, and the return.
CheckArgsReturn ==
    /\ ca_pc = "rest"
    /\ LET h == IF args.dem # None THEN <<"dem", args.dem>>
                ELSE IF args.heightlvs # None THEN <<"lvs", args.heightlvs>>
                ELSE <<"download", None>>
           weathers ==
               IF args.model = "WRF"
                 THEN [type |-> "wrf", files |-> args.wrfmodelfiles, name |-> "wrf"]
               ELSE IF args.wmnetcdf # None
                 THEN [type |-> "model_obj()", files |-> args.wmnetcdf,
                       name |-> args.model]
               ELSE [type |-> "model_obj()", files |-> None, name |-> args.model]
           flag == IF args.area # None THEN "files"
                   ELSE IF args.bounding_box # None THEN "bounding_box"
                   ELSE IF args.station_file # None THEN "station_file"
                   ELSE None
       IN  ca_result' =
               [los |-> ca_locals.los, lat |-> ca_locals.lat, lon |-> ca_locals.lon,
                heights |-> h, flag |-> flag, weathers |-> weathers,
                wmLoc |-> IF args.wmLoc # None THEN args.wmLoc
                          ELSE "out/weather_files",
                outformat |-> OutFormat(args), time |-> args.time,
                parallel |-> ~args.no_parallel]
    /\ ca_outcome' = "returned" /\ ca_err' = ""
    /\ ca_pc' = "done"
    /\ args' = [args EXCEPT !.outformat = DefaultedOutFormat(args)]
    /\ UNCHANGED <<ca_locals, orchestration, sampler>>

\* The arguments argparse hands to checkArgs.
ArgsInit ==
    /\ OrchestrationIdle /\ SamplerIdle
    /\ args \in [heightlvs : Given, outformat : {None, "hdf5", "ENVI"},
                 area : Given, bounding_box : Given, wmnetcdf : Given,
                 station_file : Given, time : {None, "2018-01-02 03:04:05"},
                 model : {"ERA-5", "WRF", "MERRA-9"}, wrfmodelfiles : Given,
                 lineofsight : Given, statevectors : Given, dem : Given,
                 wmLoc : Given, no_parallel : BOOLEAN]
    /\ ca_pc = "check" /\ ca_locals = <<>>
    /\ ca_outcome = "none" /\ ca_err = "" /\ ca_result = <<>>

ArgsNext == CheckArgsValidate \/ CheckArgsNames \/ CheckArgsReturn

SpecArgs == ArgsInit /\ [][ArgsNext]_vars

-----------------------------------------------------------------------------
(* Properties *)

\* The units of one component, in the order they were enqueued.
UnitsOf(queue, type) ==
    LET IsType(x) == x.job.type = type IN SelectSeq(queue, IsType)

\* The ranges [start, end) of u, in order, tile [0, n): contiguous from 0 to n.
Tiles(u, n) ==
    /\ Len(u) >= 1
    /\ u[1].job.start = 0
    /\ u[Len(u)].job.end = n
    /\ \A i \in 1..Len(u) : u[i].job.start <= u[i].job.end
    /\ \A i \in 1..(Len(u) - 1) : u[i].job.end = u[i + 1].job.start

InParallelCall == parallel /\ pc \in {"start", "join", "collect", "done"}

\* The call is over and its inputs are well-formed: the model raises nowhere
\* and projection mode is not combined with the Zenith sentinel.
BenignGridCall ==
    /\ entry = "grid" /\ pc = "done"
    /\ weather = 0
    /\ raytrace \/ losGiven

\* C1: a parallel delay_from_grid call returns, at every point index, the
\* hydrostatic and wet values the serial computation of the same batch gives,
\* for every number of points, look-vector specification and worker count.
C1_ParallelEqualsSerial ==
    (BenignGridCall /\ parallel) =>
        /\ outcome = "returned"
        /\ hydro = hydrostatic_delay(llas, los, raytrace).val
        /\ wet = wet_delay(llas, los, raytrace).val

\* C2: for every number of points and every worker count the hydrostatic units
\* are built and their ranges tile [0, N) exactly once, and so do the wet units.
C2_UnitsTile ==
    InParallelCall =>
        /\ parmap_result # "raised"
        /\ pc = "start" =>
              /\ Tiles(UnitsOf(q, "hydro"), Len(llas))
              /\ Tiles(UnitsOf(q, "wet"), Len(llas))

SomeWorkerRaised == \E t \in DOMAIN threads : threads[t].pc = "died"

\* C3: when the computation of a unit raises inside a worker, the dispatch does
\* not return normally: the exception reaches the caller of _parmap.
C3_WorkerErrorPropagates ==
    SomeWorkerRaised => parmap_result # "returned"

\* C4: when a unit fails, _parmap hands back no answer list with some slots set
\* and others unset, and delay_from_grid returns no (hydro, wet) pair.
C4_NoPartialResult ==
    SomeWorkerRaised =>
        /\ parmap_result = "returned" =>
              ~(/\ \E i \in DOMAIN answers : answers[i].set
                /\ \E j \in DOMAIN answers : ~answers[j].set)
        /\ outcome # "returned"

\* C5: _parmap returns its answers only after every worker thread it started
\* has ended; no worker is computing or about to write once it has returned.
C5_ReturnAfterWorkersEnd ==
    parmap_result = "returned" =>
        \A t \in DOMAIN threads : threads[t].pc \in {"exit", "died"}

C5_Witness ==
    /\ parmap_result = "returned" /\ pc = "collect"
    /\ num_procs = 4
    /\ \E t \in DOMAIN threads : threads[t].pc = "exit"
    /\ \E i \in DOMAIN writes : writes[i] = 1

\* The unit enqueued at slot i raises when computed.
UnitRaises(i) == go(jobs[i]).err # ""

C6_State ==
    /\ \A i \in DOMAIN answers :
          /\ takes[i] <= 1
          /\ writes[i] <= takes[i]
          /\ parmap_result = "returned" =>
                /\ takes[i] = 1
                /\ writes[i] = 1 <=> ~UnitRaises(i)
    /\ \A t, u \in DOMAIN threads :
          (t # u /\ threads[t].pc = "work" /\ threads[u].pc = "work")
              => threads[t].idx # threads[u].idx
    /\ \A i, j \in DOMAIN answers :
          (i < j /\ jobs[i].type = jobs[j].type) => jobs[i].end <= jobs[j].start

C6_Step ==
    /\ \A t \in DOMAIN threads :
          (threads[t].pc # "work" /\ threads'[t].pc = "work")
              => /\ q # <<>> /\ threads'[t].idx = Head(q).idx
                 /\ takes'[threads'[t].idx] = takes[threads'[t].idx] + 1
    /\ \A i \in DOMAIN writes :
          writes'[i] # writes[i]
              => \E t \in DOMAIN threads :
                    /\ threads[t].pc = "work" /\ threads[t].idx = i
                    /\ threads'[t].pc = "run"
                    /\ \A u \in DOMAIN threads : u # t => threads'[u] = threads[u]

ExpectedAnswer(i) ==
    LET r == go(jobs[i]) IN
    IF r.err # "" THEN NoneAnswer ELSE [set |-> TRUE, val |-> r.val]

\* The array holds, at every index i, a delay of component comp computed from
\* point i and, when los is an array, from its entry i.
InPointOrder(arr, comp) ==
    /\ Len(arr) = Len(llas)
    /\ \A i \in 1..Len(arr) :
          /\ arr[i][1] = comp
          /\ arr[i][2] = llas[i]
          /\ ~los.zenith => (IF raytrace THEN arr[i][3] ELSE arr[i][4]) = los.arr[i]

LosMatchesPoints == los.zenith \/ Len(los.arr) = Len(llas)

\* C7: the answers of a dispatch do not depend on the schedule: when _parmap
\* returns, every slot holds what its own unit computes (nothing if it raises),
\* and the arrays a parallel delay_from_grid returns are in point order.
C7_ScheduleIndependent ==
    /\ parmap_result = "returned" =>
          \A i \in DOMAIN answers : answers[i] = ExpectedAnswer(i)
    /\ (parallel /\ outcome = "returned" /\ LosMatchesPoints) =>
          InPointOrder(hydro, "hydro") /\ InPointOrder(wet, "wet")

C7_Witness ==
    /\ parallel /\ outcome = "returned"
    /\ num_procs = 4 /\ Len(llas) = 3 /\ ~los.zenith
    /\ InPointOrder(hydro, "hydro")

\* C8: delay_from_grid returns, for a point array of shape S + (3,), two
\* arrays of shape S, in the serial and in the parallel path.
C8_ShapePreserved ==
    BenignGridCall =>
        /\ outcome = "returned"
        /\ outShape = latShape
        /\ Len(hydro) = Prod(latShape) /\ Len(wet) = Prod(latShape)

RastersDiffer == ~(latShape = lonShape /\ lonShape = htShape)

\* C9: when the lat, lon and height rasters of delay_from_files differ in
\* shape, the call raises the shape-mismatch error, never reaches
\* delay_from_grid and never queries the atmospheric model.
C9_FilesMismatchRejected ==
    (entry = "files" /\ RastersDiffer) =>
        /\ ~queried
        /\ pc \in {"files", "done"}
        /\ pc = "done" => (outcome = "raised" /\ err = "ShapeMismatch")

C9_Witness ==
    /\ entry = "files" /\ RastersDiffer /\ latShape = lonShape
    /\ losGiven /\ parallel
    /\ pc = "done" /\ err = "ShapeMismatch" /\ ~queried

\* C10: in delay_from_files and _tropo_delay_with_values a line-of-sight array
\* whose shape differs from the lat/lon/height shape is rejected with the
\* shape-mismatch error before any query of the atmospheric model.
C10_LosMismatchRejected ==
    (entry \in {"files", "values"} /\ ~RastersDiffer
       /\ losGiven /\ losShape # latShape) =>
        /\ ~queried
        /\ pc = "done" => (outcome = "raised" /\ err = "ShapeMismatch")

\* The message names shape s: one of its parts is the printed value of s.
Names(m, s) == \E i \in 1..Len(m) : m[i].kind = "value" /\ m[i].shape = s

\* A replacement field left in the message as text.
Unfilled(m) ==
    \E i \in 1..Len(m) :
        m[i].kind = "text"
        /\ m[i].text \in {"{lats.shape}", "{lons.shape}", "{hts.shape}",
                          "{los.shape}"}

\* C11: the shape-mismatch error of delay_from_files and of
\* _tropo_delay_with_values carries a message in which every shape placeholder
\* is filled in: the shapes of lat, lon and height (and of the line-of-sight
\* array where there is one) are named.
C11_MessageNamesShapes ==
    (pc = "done" /\ err = "ShapeMismatch") =>
        /\ ~Unfilled(msg)
        /\ Names(msg, latShape) /\ Names(msg, lonShape) /\ Names(msg, htShape)
        /\ (entry = "values" /\ losGiven) => Names(msg, losShape \o <<3>>)

\* The slices of the units u differ in size by at most 1.
EvenSlices(u) ==
    \A i, j \in 1..Len(u) :
        (u[i].job.end - u[i].job.start) - (u[j].job.end - u[j].job.start) <= 1

\* C15: for a worker count n, delay_from_grid builds floor(n/2) hydrostatic
\* units and n - floor(n/2) wet units, n in total and as many as the worker
\* pool has threads; each component has as many slices as workers assigned to
\* it, of sizes that differ by at most 1.
C15_UnitCounts ==
    InParallelCall =>
        /\ parmap_result # "raised"
        /\ pc = "start" =>
              /\ Len(UnitsOf(q, "hydro")) = num_procs \div 2
              /\ Len(UnitsOf(q, "wet")) = num_procs - (num_procs \div 2)
              /\ Len(q) = num_procs /\ Len(threads) = num_procs
              /\ EvenSlices(UnitsOf(q, "hydro")) /\ EvenSlices(UnitsOf(q, "wet"))

\* No unit of the call raises when it is computed.
NoUnitRaises == \A i \in 1..Len(jobs) : ~UnitRaises(i)

\* _parmap has returned with every unit taken and computed once, every worker
\* out of its loop and every slot holding the result of its own unit.
DispatchComplete ==
    /\ parmap_result = "returned"
    /\ q = <<>>
    /\ \A t \in DOMAIN threads : threads[t].pc = "exit"
    /\ \A i \in DOMAIN answers :
          /\ takes[i] = 1
          /\ answers[i] = [set |-> TRUE, val |-> go(jobs[i]).val]

\* C19: provided no unit's computation raises, a dispatch terminates: once the
\* units are enqueued, _parmap eventually returns, with every unit pulled and
\* computed, every worker gone after finding the queue empty, and every answer
\* slot holding the result of its own unit.
C19_DispatchTerminates ==
    (pc = "start" /\ NoUnitRaises) ~> DispatchComplete

C19_Witness ==
    /\ DispatchComplete /\ NoUnitRaises
    /\ num_procs = 4 /\ Len(llas) = 3 /\ ~los.zenith

\* The caller is inside delay_from_grid.
InGridCall == pc \in {"grid", "start", "join", "collect"}

\* C20: a delay_from_grid call, serial or parallel, leaves the atmospheric
\* model, the point array and the line-of-sight array as they were: no step of
\* the call or of its workers changes them, and the arrays to be returned are
\* written only when the call returns.
C20_InputsUnchanged ==
    [][InGridCall =>
          /\ weather' = weather /\ llas' = llas /\ los' = los /\ pts' = pts
          /\ pc' # "done" => (hydro' = hydro /\ wet' = wet)]_vars

C20_Witness ==
    /\ entry = "grid" /\ pc = "done" /\ outcome = "returned"
    /\ parallel /\ num_procs = 4 /\ ~raytrace
    /\ Len(llas) = 3 /\ llas = pts /\ los = LosArray(Len(pts))
    /\ \A i \in DOMAIN writes : writes[i] = 1

\* C21: a worker whose unit raises pulls no further unit while the others go
\* on, and when _parmap returns the work queue is empty and every unit has
\* been pulled, in every interleaving and whichever units raise.
C21_QueueEmptyAtReturn ==
    /\ [](parmap_result = "returned" =>
            /\ q = <<>>
            /\ \A i \in DOMAIN takes : takes[i] = 1)
    /\ [][\A t \in DOMAIN threads :
              threads[t].pc = "died" => threads'[t] = threads[t]]_vars

C21_Witness ==
    /\ parmap_result = "returned" /\ q = <<>>
    /\ num_procs = 4
    /\ \A t \in DOMAIN threads : threads[t].pc = "died"
    /\ \E i \in DOMAIN answers : UnitRaises(i) /\ go(jobs[i]).err = "ModelError"

\* Some component has more workers than the batch has points, so one of its
\* units has an empty index range.
FewerPointsThanWorkers == Len(llas) < hydro_procs \/ Len(llas) < wet_procs

\* C22: a parallel delay_from_grid call over N >= 1 points, with N smaller
\* than the number of workers of a component, does not fail on the unit whose
\* index range is empty: it returns N hydrostatic and N wet values.  Stated
\* for the even worker counts, for which every unit is built.
C22_EmptyUnitTolerated ==
    (BenignGridCall /\ parallel /\ FewerPointsThanWorkers /\ num_procs % 2 = 0) =>
        /\ outcome = "returned"
        /\ Len(hydro) = Len(llas) /\ Len(wet) = Len(llas)

\* C23: with the Zenith look vector the raytrace flag has no effect: the call
\* with raytrace=False completes and returns what the call with raytrace=True
\* returns.
C23_ZenithIgnoresRaytrace ==
    (/\ entry = "grid" /\ pc = "done" /\ weather = 0
     /\ los.zenith /\ ~raytrace /\ ~parallel) =>
        /\ outcome = "returned"
        /\ hydro = hydrostatic_delay(llas, Zenith, TRUE).val
        /\ wet = wet_delay(llas, Zenith, TRUE).val

-----------------------------------------------------------------------------
(* Properties of _common_delay *)

Rays == 1..Len(heights)

\* Two delays are the same number.
SameDelay(a, b) == a.num * b.den = b.num * a.den

\* The look vectors the call followed builds its rays from.
TheVectors == RayVectors(heights, cd_look_vecs, cd_raytrace)

\* The rays are built: lengths, steps and the truncated samples are set.
RaysBuilt == cd_pc \in {"query", "integrate", "correct", "done"}

\* C12: for a point whose height exceeds the reference height, queried with
\* Zenith, the first sample is above zref, no sample is kept and the delay is
\* 0, whatever the model returns.
C12_AboveCeilingZero ==
    (cd_pc = "done" /\ cd_look_vecs.zenith) =>
        \A i \in Rays :
            heights[i] > ZREF =>
                /\ steps[i] = 0 /\ t_points_l[i] = <<>> /\ chunks[i] = <<>>
                /\ cd_delays[i].num = 0

C12_Witness ==
    /\ cd_pc = "done" /\ cd_look_vecs.zenith /\ delay.kind = "ramp"
    /\ \E i, j \in Rays :
          /\ heights[i] > ZREF + STEP /\ cd_delays[i].num = 0
          /\ heights[j] < ZREF /\ cd_delays[j].num > 0

\* C13: with a constant model c, the delay of a Zenith ray from a point below
\* the reference height is 1e-6 * c * L for its length L = zref - height.
C13_ConstantModelClosedForm ==
    (cd_pc = "done" /\ cd_look_vecs.zenith /\ delay.kind = "const") =>
        \A i \in Rays :
            heights[i] < ZREF =>
                SameDelay(cd_delays[i],
                          [num |-> delay.c * (ZREF - heights[i]), den |-> 1])

AllIncidenceZero ==
    /\ ~cd_look_vecs.zenith
    /\ \A i \in Rays : cd_look_vecs.arr[i] = 0

\* One purely vertical look vector per point, reaching the reference height.
VerticalToZref ==
    [zenith |-> FALSE,
     arr |-> [i \in Rays |-> [len |-> ZREF - heights[i], dz |-> ZREF - heights[i]]]]

\* C14: for points below the reference height, projection mode with incidence
\* angle 0 returns the delays raytrace mode returns for explicit vertical look
\* vectors that reach the reference height.
C14_ProjectionEqualsVertical ==
    (/\ cd_pc = "done" /\ ~cd_raytrace /\ AllIncidenceZero
     /\ \A i \in Rays : heights[i] < ZREF) =>
        LET traced == CommonDelay(delay, heights, VerticalToZref, TRUE)
        IN  \A i \in Rays : SameDelay(cd_delays[i], traced[i])

C14_Witness ==
    /\ cd_pc = "done" /\ ~cd_raytrace /\ AllIncidenceZero
    /\ Len(heights) = 2
    /\ \A i \in Rays : heights[i] < ZREF - STEP /\ cd_delays[i].num > 0
    /\ cd_delays = CommonDelay(delay, heights, VerticalToZref, TRUE)

\* C16: a ray of length L > 0 is sampled at ceil(L / STEP) evenly spaced path
\* parameters that run from 0 to L inclusive, and two consecutive path
\* parameters are at most STEP apart.
C16_SpacingAtMostStep ==
    RaysBuilt =>
        \A i \in Rays :
            lengths[i] > 0 =>
                LET num == StepsFor(lengths[i])
                    sp == thisspace(lengths[i], num)
                    den == SpaceDen(num)
                IN  /\ num * STEP >= lengths[i] /\ (num - 1) * STEP < lengths[i]
                    /\ Len(sp) = num
                    /\ sp[1] = 0 /\ sp[num] = lengths[i] * den
                    /\ \A j \in 1..(num - 1) :
                          /\ sp[j + 1] - sp[j] = sp[2] - sp[1]
                          /\ sp[j + 1] - sp[j] <= STEP * den

RECURSIVE KeptBefore(_)
\* The number of samples the rays before ray i keep.
KeptBefore(i) == IF i = 1 THEN 0 ELSE KeptBefore(i - 1) + Len(t_points_l[i - 1])

\* C17: the kept samples of a ray and their path parameters are the prefix of
\* its candidate samples before the first one whose height exceeds zref: all
\* of them when none exceeds it, none when the first does, and nothing after
\* the first exceeding sample.
C17_KeptIsPrefix ==
    RaysBuilt =>
        \A i \in Rays :
            LET cand == Candidates(i, heights[i], TheVectors[i])
                k == Len(t_points_l[i])
            IN  /\ k <= Len(cand) /\ steps[i] = k
                /\ \A j \in 1..k :
                      /\ ~Exceeds(cand[j], ZREF)
                      /\ t_points_l[i][j] = [num |-> cand[j].tn, den |-> cand[j].td]
                      /\ KeptBefore(i) + j <= Len(positions_a)
                      /\ positions_a[KeptBefore(i) + j] = cand[j]
                /\ k < Len(cand) => Exceeds(cand[k + 1], ZREF)

C17_Witness ==
    /\ RaysBuilt
    /\ \E i \in Rays :
          LET cand == Candidates(i, heights[i], TheVectors[i])
          IN  /\ Len(cand) = 2 /\ Exceeds(cand[1], ZREF) /\ ~Exceeds(cand[2], ZREF)
              /\ t_points_l[i] = <<>>
    /\ \E i \in Rays :
          LET cand == Candidates(i, heights[i], TheVectors[i])
          IN  Len(cand) = 3 /\ Len(t_points_l[i]) = 2

\* C18: the values integrated for ray i are the values the one batched model
\* query returned for ray i's own surviving samples, in order: the chunk starts
\* at the number of samples the rays before it keep and is as long as ray i's
\* kept path parameters, also when some rays keep no sample.
C18_ChunkIsOwnSamples ==
    chunks # <<>> =>
        \A i \in Rays :
            /\ indices[i] = KeptBefore(i)
            /\ Len(chunks[i]) = Len(t_points_l[i])
            /\ \A k \in 1..Len(chunks[i]) :
                  /\ chunks[i][k] = wet_delays[KeptBefore(i) + k]
                  /\ chunks[i][k].at.pt = i
                  /\ chunks[i][k].at.tn = t_points_l[i][k].num
                  /\ chunks[i][k].val = QueryValue(delay, chunks[i][k].at)

C18_Witness ==
    /\ cd_pc = "done" /\ Len(heights) = 2
    /\ t_points_l[1] = <<>> /\ Len(t_points_l[2]) >= 2
    /\ Len(chunks[2]) = Len(t_points_l[2])
    /\ cd_delays[2].num > 0

-----------------------------------------------------------------------------
(* Properties of checkArgs *)

\* With a time, arguments that pass the checks of lines 43-54 are returned.
ArgsWithTimeReturned ==
    (ca_pc = "done" /\ args.time # None /\ ArgsPassChecks(args)) =>
        ca_outcome = "returned"

\* C24: checkArgs accepts arguments with the weather-model file given and no
\* time, when they pass its checks otherwise: it returns its result tuple.
C24_ModelFileWithoutTime ==
    (/\ ca_pc = "done"
     /\ args.wmnetcdf # None /\ args.time = None
     /\ ArgsPassChecks(args)) =>
        /\ ca_outcome = "returned"
        /\ ca_result.time = None
        /\ ca_result.weathers.files = args.wmnetcdf

=============================================================================
